---- MODULE Spec2Model ----
(***************************************************************************)
(* Signaling server and mediasoup router of the Mobile Camera Receptor.    *)
(*                                                                         *)
(* The server (socket.io handlers, device registry, removal timers) is     *)
(* src/unnamed/part_001; the router (MediasoupRouter: transports,          *)
(* producers, consumers, streamMetadata) is src/unnamed/part_005; the      *)
(* HTTP streams API is src/backend/src/server-simple.ts.                   *)
(*                                                                         *)
(* Identifiers: sockets, devices, transports, producers and consumers are  *)
(* numbered; a stream id "stream-<transportId>-<epochMs>" is the pair      *)
(* <<transportId, ms>>.  appData.clientId values are tagged pairs so that  *)
(* a device id, a transport id and the default "client-<ms>" label never   *)
(* compare equal (device ids are client-chosen strings, transport ids are  *)
(* UUIDs drawn by the SFU).                                                *)
(***************************************************************************)
EXTENDS Integers, Sequences, FiniteSets, TLC

\* ---- bounds -------------------------------------------------------------
MaxSockets == 2
MaxDevices == 2
MaxClientTransports == 1
MaxEgressTransports == 1
MaxProducers == 2
MaxConsumers == 2
MaxPending == 2
MaxScale == 4
MaxStoreStreams == 5
MaxClock == 2
MaxStoreDevices == 1

Sockets == 1..MaxSockets
TransportIds == 1..(MaxClientTransports + MaxEgressTransports)
DeviceIds == 1..MaxDevices
DeviceNames == {"cam"}
StreamNames == {"CAM-LEFT", "CAM-RIGHT"}

NoSocket == 0
NoDevice == 0
NoName == ""
NoStream == <<0, 0>>
NoTransport == 0
NoProducer == 0

\* a field of an RTP encoding that the client left out
Undeclared == -1
ScaleFactors == {Undeclared} \cup (0..MaxScale)
BitRates == {Undeclared, 0, 500000}
\* rtpParameters.encodings[0]; without encodings it declares nothing
Encodings == [scale : ScaleFactors, maxBitrate : BitRates]
NoEncodings == [scale |-> Undeclared, maxBitrate |-> Undeclared]

DefaultWidth == 1280
DefaultHeight == 720
DefaultBitrate == 1000000

\* ---- state --------------------------------------------------------------
VARIABLES
  sockets,        \* socket id -> "idle" | "open" | "closed"
  devices,        \* the devices Map: deviceId -> DeviceInfo (present ids only)
  devOrder,       \* insertion order of the devices Map (Map iteration order)
  removalTimer,   \* deviceId -> TRUE while a setTimeout(…, 30000) is pending
  msTransports,   \* SFU transport objects, index = transport id
  msProducers,    \* SFU producer objects, index = producer id
  msConsumers,    \* SFU consumer objects, index = consumer id
  transports,     \* MediasoupRouter.transports (ids)
  producers,      \* MediasoupRouter.producers (ids)
  consumers,      \* MediasoupRouter.consumers (ids)
  streamMetadata, \* MediasoupRouter.streamMetadata (set of StreamInfo)
  plainTransports,\* egress bindings kept by createPlainTransportForStream
  pending,        \* requests suspended on an SFU call
  now,            \* Date.now(), advanced on every stream creation
  emits,          \* events io.emit()ed by the last step, in order
  reply,          \* the callback(...) of the last step
  cancelled,      \* devices whose pending timer the last step clearTimeout()ed
  started,        \* stream ids with stream-started emitted and no stream-ended since
  storeStreams,   \* dashboard store: streams, in list order
  storeDevices,   \* dashboard store: devices, in list order
  storeEvent      \* the event the dashboard store handled in the last step

vars == <<sockets, devices, devOrder, removalTimer, msTransports, msProducers,
          msConsumers, transports, producers, consumers, streamMetadata,
          plainTransports, pending, now, emits, reply, cancelled, started,
          storeStreams, storeDevices, storeEvent>>

\* the signaling server and the router; the dashboard store runs in a browser
serverVars == <<sockets, devices, devOrder, removalTimer, msTransports, msProducers,
                msConsumers, transports, producers, consumers, streamMetadata,
                plainTransports, pending, now, emits, reply, cancelled, started>>
storeVars == <<storeStreams, storeDevices, storeEvent>>

routerVars == <<msTransports, msProducers, msConsumers, transports, producers,
                consumers, streamMetadata, plainTransports, now>>
deviceVars == <<devices, devOrder, removalTimer>>

\* ---- helpers ------------------------------------------------------------
DevTag(d) == <<"dev", d>>
DefaultTag(t) == <<"client", t>>
BridgeTag(t) == <<"ndi-bridge", t>>
TransportTag(t) == <<"transport", t>>

Ev(type, dev, sid, flag) ==
  [type |-> type, dev |-> dev, sid |-> sid, flag |-> flag, name |-> NoName]
EvNamed(type, sid, name) == [Ev(type, NoDevice, sid, FALSE) EXCEPT !.name = name]
NoData == <<0, 0, 0>>
NoReply == [socket |-> NoSocket, op |-> "none", ok |-> TRUE, error |-> "", data |-> NoData]
Ok(s, op) == [socket |-> s, op |-> op, ok |-> TRUE, error |-> "", data |-> NoData]
OkData(s, op, data) == [socket |-> s, op |-> op, ok |-> TRUE, error |-> "", data |-> data]
Err(s, op, e) == [socket |-> s, op |-> op, ok |-> FALSE, error |-> e, data |-> NoData]

RECURSIVE SeqRemove(_, _)
SeqRemove(q, x) ==
  IF q = <<>> THEN <<>>
  ELSE IF Head(q) = x THEN SeqRemove(Tail(q), x)
  ELSE <<Head(q)>> \o SeqRemove(Tail(q), x)

\* Array.from(devices.values()).find(d => d.socketId === socket.id)
RECURSIVE FindFirst(_, _, _)
FindFirst(order, devs, s) ==
  IF order = <<>> THEN NoDevice
  ELSE IF devs[Head(order)].socketId = s THEN Head(order)
  ELSE FindFirst(Tail(order), devs, s)

\* a lookup that takes the first device of the registry whatever its session
deviceOfAnySocket(s) == IF devOrder = <<>> THEN NoDevice ELSE Head(devOrder)

deviceBySocket(s) == FindFirst(devOrder, devices, s)

\* ---- dashboard store (zustand) ---------------------------------------------
StoreStreamIds == 1..MaxStoreStreams
\* the devices the dashboard hears of
StoreDeviceIds == 1..MaxStoreDevices
Clock == 1..MaxClock
\* the stream of a stream-started payload: { ...stream, deviceId }
StorePayloads == [id : StoreStreamIds, connectedAt : Clock, deviceId : StoreDeviceIds \cup {NoDevice}]
NoPayload == [id |-> 0, connectedAt |-> 0, deviceId |-> NoDevice]
NoStoreEvent == [type |-> "none", stream |-> NoPayload, listed |-> FALSE]
\* "limit to 3 streams max": existingStreams.length >= 3
StoreLimit == 3

ListedIds(streams) == {streams[i].id : i \in DOMAIN streams}

\* an addStream that keeps the entries with the id of the new stream
othersKeepsAll(streams, id) == streams

\* state.streams.filter(s => s.id !== id)
others(streams, id) == SelectSeq(streams, LAMBDA x : x.id # id)

\* Array.prototype.sort by connectedAt, which is stable
RECURSIVE InsertByConnectedAt(_, _)
InsertByConnectedAt(q, x) ==
  IF q = <<>> THEN <<x>>
  ELSE IF q[Len(q)].connectedAt <= x.connectedAt THEN Append(q, x)
  ELSE Append(InsertByConnectedAt(SubSeq(q, 1, Len(q) - 1), x), q[Len(q)])

RECURSIVE SortByConnectedAt(_)
SortByConnectedAt(q) ==
  IF q = <<>> THEN <<>>
  ELSE InsertByConnectedAt(SortByConnectedAt(SubSeq(q, 1, Len(q) - 1)), q[Len(q)])

addStream(streams, stream) ==
  LET existingStreams == others(streams, stream.id)
  IN IF Len(existingStreams) >= StoreLimit
     THEN Append(Tail(SortByConnectedAt(existingStreams)), stream)
     ELSE Append(existingStreams, stream)

removeStream(streams, id) == SelectSeq(streams, LAMBDA x : x.id # id)

\* state.devices.map(d => d.deviceId === deviceId ? { ...d, ...fields } : d)
updateDeviceStreaming(devs, d, flag, sid) ==
  [i \in DOMAIN devs |->
     IF devs[i].deviceId = d
     THEN [devs[i] EXCEPT !.isStreaming = flag, !.streamId = sid]
     ELSE devs[i]]

upsertDevice(devs, d) ==
  IF \E i \in DOMAIN devs : devs[i].deviceId = d
  THEN [i \in DOMAIN devs |->
          IF devs[i].deviceId = d THEN [devs[i] EXCEPT !.isConnected = TRUE] ELSE devs[i]]
  ELSE Append(devs, [deviceId |-> d, isConnected |-> TRUE, isStreaming |-> FALSE,
                     streamId |-> 0])

\* service.onStreamStarted
OnStreamStarted(stream) ==
  /\ storeDevices' =
       IF stream.deviceId # NoDevice
       THEN [i \in DOMAIN storeDevices |->
               IF storeDevices[i].deviceId = stream.deviceId
               THEN [storeDevices[i] EXCEPT !.isStreaming = TRUE, !.streamId = stream.id,
                                            !.isConnected = TRUE]
               ELSE storeDevices[i]]
       ELSE storeDevices
  /\ storeStreams' = addStream(storeStreams, stream)
  /\ storeEvent' = [type |-> "stream-started", stream |-> stream,
                    listed |-> stream.id \in ListedIds(storeStreams)]
  /\ UNCHANGED serverVars

\* service.onStreamEnded
OnStreamEnded(id) ==
  /\ LET found == SelectSeq(storeStreams, LAMBDA x : x.id = id)
         d == IF found = <<>> THEN NoDevice ELSE found[1].deviceId
     IN storeDevices' = IF d # NoDevice
                        THEN updateDeviceStreaming(storeDevices, d, FALSE, 0)
                        ELSE storeDevices
  /\ storeStreams' = removeStream(storeStreams, id)
  /\ storeEvent' = [type |-> "stream-ended", stream |-> NoPayload, listed |-> FALSE]
  /\ UNCHANGED serverVars

\* service.onDeviceConnected
OnDeviceConnected(d) ==
  /\ storeDevices' = upsertDevice(storeDevices, d)
  /\ storeEvent' = [type |-> "device-connected", stream |-> NoPayload, listed |-> FALSE]
  /\ UNCHANGED <<storeStreams, serverVars>>

\* ---- initial state ------------------------------------------------------
Init ==
  /\ sockets = [s \in Sockets |-> "idle"]
  /\ devices = <<>>
  /\ devOrder = <<>>
  /\ removalTimer = [d \in DeviceIds |-> FALSE]
  /\ msTransports = <<>>
  /\ msProducers = <<>>
  /\ msConsumers = <<>>
  /\ transports = {}
  /\ producers = {}
  /\ consumers = {}
  /\ streamMetadata = {}
  /\ plainTransports = {}
  /\ pending = {}
  /\ now = 1
  /\ emits = <<>>
  /\ reply = NoReply
  /\ cancelled = {}
  /\ started = {}
  /\ storeStreams = <<>>
  /\ storeDevices = <<>>
  /\ storeEvent = NoStoreEvent

\* ---- socket.io connection / register-device / disconnect ----------------
Connect(s) ==
  /\ UNCHANGED storeVars
  /\ sockets[s] = "idle"
  /\ sockets' = [sockets EXCEPT ![s] = "open"]
  /\ emits' = <<>>
  /\ reply' = NoReply
  /\ UNCHANGED <<deviceVars, routerVars, pending, started>>
  /\ cancelled' = {}

\* a register-device that accepts a request without a deviceId
missingIdAccepted(s) == Ok(s, "register-device")

\* if (!deviceId) { callback?.({ error: 'deviceId is required' }); return; }
missingIdReply(s) == Err(s, "register-device", "deviceId is required")

RegisterDeviceMissingId(s) ==
  /\ UNCHANGED storeVars
  /\ sockets[s] = "open"
  /\ emits' = <<>>
  /\ reply' = missingIdReply(s)
  /\ UNCHANGED <<sockets, deviceVars, routerVars, pending, started>>
  /\ cancelled' = {}

\* a register-device that forgets clearTimeout(existing.removalTimer)
registerKeepsTimer(timers, d) == timers

\* clearTimeout(existing.removalTimer); existing.removalTimer = undefined
registerCancelsTimer(timers, d) == [timers EXCEPT ![d] = FALSE]

\* a register-device that takes the name of the request as it is
registerNameDropped(name, has, old) == name

\* deviceName: deviceName || existing?.deviceName
registerName(name, has, old) ==
  IF name # NoName THEN name ELSE IF has THEN old ELSE NoName

\* a registry that appends an entry on every register-device
registerPushes(order, d, has) == Append(order, d)

\* devices.set(deviceId, info): a Map keeps the position of an existing key
registerOrder(order, d, has) == IF has THEN order ELSE Append(order, d)

\* the device registry, as the record a handler reads and writes
DeviceRegistry == [devs |-> devices, order |-> devOrder, timers |-> removalTimer]

\* the registry after register-device {deviceId: d, deviceName: name} on socket s
registerDevice(G, s, d, name) ==
  LET has == d \in DOMAIN G.devs
      info == [socketId |-> s,
               deviceName |-> registerName(name, has, IF has THEN G.devs[d].deviceName
                                                              ELSE NoName),
               isConnected |-> TRUE,
               isStreaming |-> IF has THEN G.devs[d].isStreaming ELSE FALSE,
               streamId |-> IF has THEN G.devs[d].streamId ELSE NoStream]
  IN [devs |-> IF has THEN [G.devs EXCEPT ![d] = info] ELSE (d :> info) @@ G.devs,
      order |-> registerOrder(G.order, d, has),
      timers |-> IF has THEN registerCancelsTimer(G.timers, d) ELSE G.timers]

RegisterDevice(s, d, name) ==
  /\ UNCHANGED storeVars
  /\ sockets[s] = "open"
  /\ LET G == registerDevice(DeviceRegistry, s, d, name)
     IN /\ removalTimer' = G.timers
        /\ cancelled' = IF d \in DOMAIN devices /\ removalTimer[d] THEN {d} ELSE {}
        /\ devices' = G.devs
        /\ devOrder' = G.order
        /\ emits' = <<Ev("device-connected", d, NoStream, FALSE)>>
  /\ reply' = Ok(s, "register-device")
  /\ UNCHANGED <<sockets, routerVars, pending, started>>

Disconnect(s) ==
  /\ UNCHANGED storeVars
  /\ sockets[s] = "open"
  /\ sockets' = [sockets EXCEPT ![s] = "closed"]
  /\ LET d == deviceBySocket(s)
     IN IF d # NoDevice
        THEN /\ devices' = [devices EXCEPT ![d].isConnected = FALSE]
             /\ removalTimer' = [removalTimer EXCEPT ![d] = TRUE]
             /\ cancelled' = IF removalTimer[d] THEN {d} ELSE {}
             /\ emits' = <<Ev("device-disconnected", d, NoStream, FALSE)>>
        ELSE /\ UNCHANGED <<devices, removalTimer>>
             /\ cancelled' = {}
             /\ emits' = <<>>
  /\ reply' = NoReply
  /\ UNCHANGED <<devOrder, routerVars, pending, started>>

RemovalTimerFires(d) ==
  /\ UNCHANGED storeVars
  /\ removalTimer[d]
  /\ removalTimer' = [removalTimer EXCEPT ![d] = FALSE]
  /\ IF d \in DOMAIN devices /\ ~devices[d].isConnected /\ ~devices[d].isStreaming
     THEN /\ devices' = [x \in DOMAIN devices \ {d} |-> devices[x]]
          /\ devOrder' = SeqRemove(devOrder, d)
          /\ emits' = <<Ev("device-removed", d, NoStream, FALSE)>>
     ELSE /\ UNCHANGED <<devices, devOrder>>
          /\ emits' = <<>>
  /\ reply' = NoReply
  /\ UNCHANGED <<sockets, routerVars, pending, started>>
  /\ cancelled' = {}

\* ---- SFU objects (mediasoup Transport / Producer / Consumer) ------------
\* transport.close(), or the SFU closing it: the transport, its producers and
\* its consumers become closed; consumers of a closed producer close too.
MsCloseProducers(ps, prods) ==
  [p \in DOMAIN prods |-> IF p \in ps THEN [prods[p] EXCEPT !.closed = TRUE] ELSE prods[p]]

MsCloseConsumersOf(ps, ts, cons) ==
  [c \in DOMAIN cons |->
     IF cons[c].producer \in ps \/ cons[c].transport \in ts
     THEN [cons[c] EXCEPT !.closed = TRUE] ELSE cons[c]]

TransportsOfKind(k) == {t \in DOMAIN msTransports : msTransports[t].kind = k}

LiveProducersOn(t) ==
  {p \in DOMAIN msProducers : msProducers[p].transport = t /\ ~msProducers[p].closed}

\* ---- MediasoupRouter ----------------------------------------------------
\* The registry part of the state a close handler works on.
Registry ==
  [rt |-> transports, rp |-> producers, sm |-> streamMetadata,
   devs |-> devices, em |-> <<>>, st |-> started]

StreamsOfProducer(sm, p) == {x \in sm : x.producerId = p}
StreamsOfClient(sm, t) == {x \in sm : x.clientId = t}
StreamsById(sm, sid) == {x \in sm : x.id = sid}

\* Array.from(this.transports.values()).find(t => t.appData?.clientId === clientId)
\* clientId of a stream is a transport id; Map order is creation order.
TransportsTagged(rt, t) == {x \in rt : msTransports[x].clientId = TransportTag(t)}
FirstOf(S) == CHOOSE x \in S : \A y \in S : x <= y

handleProducerClosed(R, p) ==
  LET ss == StreamsOfProducer(R.sm, p)
  IN IF ss = {} THEN R
     ELSE LET stream == CHOOSE x \in ss : TRUE
              tagged == TransportsTagged(R.rt, stream.clientId)
          IN [R EXCEPT !.sm = @ \ {stream},
                       !.rp = @ \ {p},
                       !.rt = IF tagged = {} THEN @ ELSE @ \ {FirstOf(tagged)}]

\* producer.on('transportclose', ...) registered by the produce handler of socket s
onTransportClose(R, p, s) ==
  LET R1 == handleProducerClosed(R, p)
      ended == StreamsOfProducer(R1.sm, p)
      d == FindFirst(devOrder, R1.devs, s)
      R2 == IF d = NoDevice THEN R1
            ELSE [R1 EXCEPT !.devs[d].isStreaming = FALSE,
                            !.devs[d].streamId = NoStream,
                            !.em = Append(@, Ev("device-streaming-changed", d, NoStream, FALSE))]
  IN IF ended = {} THEN R2
     ELSE LET e == CHOOSE x \in ended : TRUE
          IN [R2 EXCEPT !.em = Append(@, Ev("stream-ended", NoDevice, e.id, FALSE)),
                        !.st = @ \ {e.id}]

\* 'transportclose' is emitted on the producers of a closing transport in
\* creation order; each handler runs to completion before the next.
RECURSIVE FireTransportClose(_, _)
FireTransportClose(R, ps) ==
  IF ps = {} THEN R
  ELSE LET p == FirstOf(ps)
       IN FireTransportClose(onTransportClose(R, p, msProducers[p].socket), ps \ {p})

\* ---- create-transport / connect-transport --------------------------------
CreateTransport(s) ==
  /\ UNCHANGED storeVars
  /\ sockets[s] = "open"
  /\ Cardinality(TransportsOfKind("webrtc")) < MaxClientTransports
  /\ LET t == Len(msTransports) + 1
         d == deviceBySocket(s)
     IN /\ msTransports' = Append(msTransports,
               [kind |-> "webrtc", closed |-> FALSE, connected |-> FALSE,
                clientId |-> IF d # NoDevice THEN DevTag(d) ELSE DefaultTag(t),
                socket |-> s, port |-> 0])
        /\ transports' = transports \cup {t}
  /\ emits' = <<>>
  /\ reply' = Ok(s, "create-transport")
  /\ UNCHANGED <<sockets, deviceVars, msProducers, msConsumers, producers, consumers,
                 streamMetadata, plainTransports, pending, now, started>>
  /\ cancelled' = {}

ConnectTransport(s, t) ==
  /\ UNCHANGED storeVars
  /\ sockets[s] = "open"
  /\ IF t \notin transports
     THEN /\ reply' = Err(s, "connect-transport", "Transport not found")
          /\ UNCHANGED msTransports
     ELSE IF msTransports[t].kind = "webrtc" /\ ~msTransports[t].closed
             /\ ~msTransports[t].connected
     THEN /\ msTransports' = [msTransports EXCEPT ![t].connected = TRUE]
          /\ reply' = Ok(s, "connect-transport")
     ELSE /\ reply' = Err(s, "connect-transport", "Failed to connect transport")
          /\ UNCHANGED msTransports
  /\ emits' = <<>>
  /\ UNCHANGED <<sockets, deviceVars, msProducers, msConsumers, transports, producers,
                 consumers, streamMetadata, plainTransports, pending, now, started>>
  /\ cancelled' = {}

\* ---- produce --------------------------------------------------------------
\* createProducer up to its await: the transport lookup.
createProducerAccepts(t) == t \in transports

ProduceBeginEncoded(s, t, kind, enc) ==
  /\ UNCHANGED storeVars
  /\ sockets[s] = "open"
  /\ Cardinality(pending) < MaxPending
  /\ Len(msProducers) + Cardinality({r \in pending : r.op = "produce"}) < MaxProducers
  /\ IF createProducerAccepts(t)
     THEN /\ pending' = pending \cup
                {[op |-> "produce", socket |-> s, transport |-> t, kind |-> kind,
                  producer |-> NoProducer, sid |-> NoStream, caps |-> TRUE,
                  enc |-> enc]}
          /\ reply' = NoReply
     ELSE /\ reply' = Err(s, "produce", "Failed to create producer")
          /\ UNCHANGED pending
  /\ emits' = <<>>
  /\ UNCHANGED <<sockets, deviceVars, routerVars, started>>
  /\ cancelled' = {}

\* if (encoding.x): a declared field counts when it is not 0
Declared(v) == v # Undeclared /\ v # 0

\* a scaling that rounds up
scaleDownCeil(n, k) == (n + k - 1) \div k

\* Math.floor(n / encoding.scaleResolutionDownBy)
scaleDown(n, k) == n \div k

\* resolution and bitrate of a stream record after createProducer read the
\* first encoding; w, h, b are what the record held (or the defaults)
fromEncoding(enc, w, h, b) ==
  [width |-> IF Declared(enc.scale) THEN scaleDown(DefaultWidth, enc.scale) ELSE w,
   height |-> IF Declared(enc.scale) THEN scaleDown(DefaultHeight, enc.scale) ELSE h,
   bitrate |-> IF Declared(enc.maxBitrate) THEN enc.maxBitrate ELSE b]

\* the StreamInfo createProducer builds for a transport without a stream
newStream(t, p, enc) ==
  LET e == fromEncoding(enc, DefaultWidth, DefaultHeight, DefaultBitrate)
  IN [id |-> <<t, now>>, producerId |-> p, clientId |-> t, customName |-> NoName,
      width |-> e.width, height |-> e.height, bitrate |-> e.bitrate]

\* the existing StreamInfo after createProducer updated it in place
updatedStream(x, p, enc) ==
  LET e == fromEncoding(enc, x.width, x.height, x.bitrate)
  IN [x EXCEPT !.producerId = p, !.width = e.width, !.height = e.height,
               !.bitrate = e.bitrate]

\* a createProducer that makes a stream record for every video producer
createProducerStreamsAlways(sm, t, p, kind, enc) ==
  IF kind # "video" THEN sm
  ELSE sm \cup {newStream(t, p, enc)}

\* a createProducer that makes a stream record for a producer of any kind
createProducerStreamsAnyKind(sm, t, p, kind, enc) ==
  LET ex == StreamsOfClient(sm, t)
  IN IF ex # {}
     THEN LET e == CHOOSE x \in ex : TRUE
          IN (sm \ {e}) \cup {updatedStream(e, p, enc)}
     ELSE sm \cup {newStream(t, p, enc)}

\* a produce whose rtpParameters carry no encodings
ProduceBegin(s, t, kind) == ProduceBeginEncoded(s, t, kind, NoEncodings)

\* createProducer after transport.produce() resolved: register the producer and
\* synthesize or update the stream record.
createProducerStreams(sm, t, p, kind, enc) ==
  IF kind # "video" THEN sm
  ELSE LET ex == StreamsOfClient(sm, t)
       IN IF ex # {}
          THEN LET e == CHOOSE x \in ex : TRUE
               IN (sm \ {e}) \cup {updatedStream(e, p, enc)}
          ELSE sm \cup {newStream(t, p, enc)}

\* the device the produce handler marks streaming
produceDevice(t) ==
  LET tag == IF t \in transports THEN msTransports[t].clientId ELSE TransportTag(t)
  IN IF tag[1] = "dev" /\ tag[2] \in DOMAIN devices THEN tag[2] ELSE NoDevice

\* a produce that insists on a connected transport
produceResolvesIfConnected(t) == ~msTransports[t].closed /\ msTransports[t].connected

\* transport.produce(): the SFU creates the producer unless the transport closed
produceResolves(t) == ~msTransports[t].closed

ProduceEnd(r) ==
  /\ UNCHANGED storeVars
  /\ r \in pending /\ r.op = "produce"
  /\ pending' = pending \ {r}
  /\ IF ~produceResolves(r.transport)
     THEN /\ reply' = Err(r.socket, "produce", "Failed to create producer")
          /\ emits' = <<>>
          /\ UNCHANGED <<deviceVars, routerVars, started>>
     ELSE LET p == Len(msProducers) + 1
              sm == createProducerStreams(streamMetadata, r.transport, p, r.kind, r.enc)
              stream == CHOOSE x \in StreamsOfProducer(sm, p) : TRUE
              d == produceDevice(r.transport)
          IN /\ msProducers' = Append(msProducers,
                    [transport |-> r.transport, kind |-> r.kind, closed |-> FALSE,
                     socket |-> r.socket])
             /\ producers' = producers \cup {p}
             /\ streamMetadata' = sm
             /\ now' = IF Cardinality(sm) > Cardinality(streamMetadata) THEN now + 1 ELSE now
             /\ reply' = Ok(r.socket, "produce")
             /\ IF r.kind = "video"
                THEN /\ devices' = IF d = NoDevice THEN devices
                                   ELSE [devices EXCEPT ![d].isStreaming = TRUE,
                                                        ![d].streamId = stream.id]
                     /\ emits' = (IF d = NoDevice THEN <<>>
                                  ELSE <<Ev("device-streaming-changed", d, stream.id, TRUE)>>)
                                 \o <<Ev("stream-started", d, stream.id, FALSE)>>
                     /\ started' = started \cup {stream.id}
                ELSE /\ emits' = <<>>
                     /\ UNCHANGED <<devices, started>>
             /\ UNCHANGED <<devOrder, removalTimer, msTransports, msConsumers, transports,
                            consumers, plainTransports>>
  /\ UNCHANGED sockets
  /\ cancelled' = {}

\* ---- the SFU closes a transport -------------------------------------------
SfuTransportClose(t) ==
  /\ UNCHANGED storeVars
  /\ t \in DOMAIN msTransports
  /\ ~msTransports[t].closed
  /\ LET ps == LiveProducersOn(t)
         R == FireTransportClose(Registry, ps)
     IN /\ msTransports' = [msTransports EXCEPT ![t].closed = TRUE]
        /\ msProducers' = MsCloseProducers(ps, msProducers)
        /\ msConsumers' = MsCloseConsumersOf(ps, {t}, msConsumers)
        /\ transports' = R.rt
        /\ producers' = R.rp
        /\ streamMetadata' = R.sm
        /\ devices' = R.devs
        /\ emits' = R.em
        /\ started' = R.st
  /\ reply' = NoReply
  /\ UNCHANGED <<sockets, devOrder, removalTimer, consumers, plainTransports, pending, now>>
  /\ cancelled' = {}

\* ---- stop-stream / update-stream-name --------------------------------------
\* a stop-stream that reports success to a session without a device
stopStreamNoDeviceAccepted(s) == Ok(s, "stop-stream")

\* else { callback({ error: 'Device not found' }); }
stopStreamNoDevice(s) == Err(s, "stop-stream", "Device not found")

\* a stop-stream that clears the flag and keeps the stream id
stopStreamKeepsId(devs, d) == [devs EXCEPT ![d].isStreaming = FALSE]

\* deviceEntry.isStreaming = false; deviceEntry.streamId = null
stopStream(devs, d) == [devs EXCEPT ![d].isStreaming = FALSE, ![d].streamId = NoStream]

StopStream(s) ==
  /\ UNCHANGED storeVars
  /\ sockets[s] = "open"
  /\ LET d == deviceBySocket(s)
     IN IF d # NoDevice
        THEN /\ devices' = stopStream(devices, d)
             /\ emits' = <<Ev("device-streaming-changed", d, NoStream, FALSE)>>
             /\ reply' = Ok(s, "stop-stream")
        ELSE /\ UNCHANGED devices
             /\ emits' = <<>>
             /\ reply' = stopStreamNoDevice(s)
  /\ UNCHANGED <<sockets, devOrder, removalTimer, routerVars, pending, started>>
  /\ cancelled' = {}

\* a rename that reports success and stores nothing
updateStreamNameForgets(sm, sid, name) == sm

\* MediasoupRouter.updateStreamName: stream.customName = name
updateStreamName(sm, sid, name) ==
  {IF x.id = sid THEN [x EXCEPT !.customName = name] ELSE x : x \in sm}

\* the update-stream-name handler: the stream registry it leaves, what it
\* emits and what it calls back
onUpdateStreamName(sm, s, sid, name) ==
  IF StreamsById(sm, sid) # {}
  THEN [sm |-> updateStreamName(sm, sid, name),
        em |-> <<EvNamed("stream-name-updated", sid, name)>>,
        reply |-> Ok(s, "update-stream-name")]
  ELSE [sm |-> sm, em |-> <<>>,
        reply |-> Err(s, "update-stream-name", "Stream not found")]

UpdateStreamName(s, sid, name) ==
  /\ UNCHANGED storeVars
  /\ sockets[s] = "open"
  /\ LET H == onUpdateStreamName(streamMetadata, s, sid, name)
     IN /\ streamMetadata' = H.sm
        /\ emits' = H.em
        /\ reply' = H.reply
  /\ UNCHANGED <<sockets, deviceVars, msTransports, msProducers, msConsumers, transports,
                 producers, consumers, plainTransports, pending, now, started>>
  /\ cancelled' = {}

\* ---- disconnectStream: socket 'disconnect-stream' and HTTP DELETE ----------
\* MediasoupRouter.disconnectStream(streamId) for a stream that exists: the
\* registry and SFU objects after it, as a record.
\* a disconnectStream that drops the stream record and leaves its producer open
disconnectStreamKeepsProducer(stream) ==
  [reg |-> [Registry EXCEPT !.sm = @ \ {stream}],
   mt |-> msTransports, mp |-> msProducers, mc |-> msConsumers]

disconnectStream(stream) ==
  LET p == stream.producerId
      had == p \in producers
      closedP == IF had THEN {p} ELSE {}
      tagged == TransportsTagged(transports, stream.clientId)
      hasT == tagged # {}
      t == IF hasT THEN FirstOf(tagged) ELSE NoTransport
      \* transport.close() fires 'transportclose' on the producers still live on it
      ps == IF hasT THEN LiveProducersOn(t) \ closedP ELSE {}
      R0 == [Registry EXCEPT !.rp = @ \ closedP]
      R1 == FireTransportClose(R0, ps)
  IN [reg |-> [R1 EXCEPT !.rt = IF hasT THEN @ \ {t} ELSE @,
                         !.sm = @ \ {stream}],
      mt |-> IF hasT THEN [msTransports EXCEPT ![t].closed = TRUE] ELSE msTransports,
      mp |-> MsCloseProducers(closedP \cup ps, msProducers),
      mc |-> MsCloseConsumersOf(closedP \cup ps, IF hasT THEN {t} ELSE {}, msConsumers)]

ApplyDisconnectStream(D) ==
  /\ msTransports' = D.mt
  /\ msProducers' = D.mp
  /\ msConsumers' = D.mc
  /\ transports' = D.reg.rt
  /\ producers' = D.reg.rp
  /\ streamMetadata' = D.reg.sm
  /\ devices' = D.reg.devs

DisconnectStream(s, sid) ==
  /\ UNCHANGED storeVars
  /\ sockets[s] = "open"
  /\ LET ss == StreamsById(streamMetadata, sid)
     IN IF ss # {}
        THEN LET stream == CHOOSE x \in ss : TRUE
                 D == disconnectStream(stream)
             IN /\ ApplyDisconnectStream(D)
                /\ emits' = Append(D.reg.em, Ev("stream-ended", NoDevice, sid, FALSE))
                /\ started' = D.reg.st \ {sid}
                /\ reply' = Ok(s, "disconnect-stream")
        ELSE /\ emits' = <<>>
             /\ reply' = Err(s, "disconnect-stream", "Stream not found")
             /\ UNCHANGED <<devices, msTransports, msProducers, msConsumers, transports,
                            producers, streamMetadata, started>>
  /\ UNCHANGED <<sockets, devOrder, removalTimer, consumers, plainTransports, pending, now>>
  /\ cancelled' = {}

\* router.delete('/:id') of the streams API; its reply is an HTTP response
HttpDeleteStream(sid) ==
  /\ UNCHANGED storeVars
  /\ LET ss == StreamsById(streamMetadata, sid)
     IN IF ss # {}
        THEN LET stream == CHOOSE x \in ss : TRUE
                 D == disconnectStream(stream)
             IN /\ ApplyDisconnectStream(D)
                /\ emits' = D.reg.em
                /\ started' = D.reg.st
                /\ reply' = Ok(NoSocket, "http-delete-stream")
        ELSE /\ emits' = <<>>
             /\ reply' = Err(NoSocket, "http-delete-stream", "Stream not found")
             /\ UNCHANGED <<devices, msTransports, msProducers, msConsumers, transports,
                            producers, streamMetadata, started>>
  /\ UNCHANGED <<sockets, devOrder, removalTimer, consumers, plainTransports, pending, now>>
  /\ cancelled' = {}

\* stream ids a client can name: the ones ever handed out, and an unknown one
StreamIds == TransportIds \X (1..MaxProducers)

\* ---- ndi-bridge-consume-stream ---------------------------------------------
\* The stream id the bridge sends with a producer id: the one listed for it by
\* ndi-bridge-request-streams, if any.
ListedStreamId(p) ==
  IF StreamsOfProducer(streamMetadata, p) = {} THEN NoStream
  ELSE (CHOOSE x \in StreamsOfProducer(streamMetadata, p) : TRUE).id

BindingsOf(p) == {b \in plainTransports : b.producerId = p}

BridgeConsumeBegin(s, p, caps) ==
  /\ UNCHANGED storeVars
  /\ sockets[s] = "open"
  /\ Cardinality(pending) < MaxPending
  /\ Len(msConsumers) + Cardinality({r \in pending : r.op # "produce"}) < MaxConsumers
  /\ \/ BindingsOf(p) # {}
     \/ Cardinality(TransportsOfKind("plain"))
          + Cardinality({r \in pending : r.op = "bridge-transport" /\ BindingsOf(r.producer) = {}})
        < MaxEgressTransports
  /\ IF p \in producers
     THEN /\ pending' = pending \cup
                {[op |-> "bridge-transport", socket |-> s, transport |-> NoTransport,
                  kind |-> "video", producer |-> p, sid |-> ListedStreamId(p),
                  caps |-> caps, enc |-> NoEncodings]}
          /\ reply' = NoReply
     ELSE /\ reply' = Err(s, "ndi-bridge-consume-stream", "Producer not found")
          /\ UNCHANGED pending
  /\ emits' = <<>>
  /\ UNCHANGED <<sockets, deviceVars, routerVars, started>>
  /\ cancelled' = {}

\* egress port pairs held by live plain transports
PortsInUse(mt) == {mt[t].port : t \in {x \in DOMAIN mt : mt[x].kind = "plain" /\ ~mt[x].closed}}
FreePort(mt) == CHOOSE k \in 1..(Len(mt) + 1) : k \notin PortsInUse(mt) /\
                   \A j \in 1..(k - 1) : j \in PortsInUse(mt)

\* createPlainTransportForStream(streamId, producerId): the binding it returns
\* (an existing one for the producer, else a new plain transport).
createPlainTransportForStream(sid, p) ==
  IF BindingsOf(p) # {}
  THEN [new |-> FALSE, transport |-> (CHOOSE b \in BindingsOf(p) : TRUE).transport]
  ELSE [new |-> TRUE, transport |-> Len(msTransports) + 1]

\* transport.consume() rejects a closed producer, a closed transport and
\* capabilities that cannot decode the producer.
consumeAccepts(mt, t, p, caps) == caps /\ ~msProducers[p].closed /\ ~mt[t].closed

\* what the handler does when a step of it throws (its catch block)
bridgeCatch(mt, rt, pt) == [mt |-> mt, rt |-> rt, pt |-> pt]

BridgeTransportReady(r) ==
  /\ UNCHANGED storeVars
  /\ r \in pending /\ r.op = "bridge-transport"
  /\ LET b == createPlainTransportForStream(r.sid, r.producer)
         t == b.transport
         mt == IF b.new
               THEN Append(msTransports,
                      [kind |-> "plain", closed |-> FALSE, connected |-> FALSE,
                       clientId |-> BridgeTag(t), socket |-> r.socket,
                       port |-> FreePort(msTransports)])
               ELSE msTransports
         rt == IF b.new THEN transports \cup {t} ELSE transports
         pt == IF b.new
               THEN plainTransports \cup
                      {[transport |-> t, streamId |-> r.sid, producerId |-> r.producer]}
               ELSE plainTransports
     IN /\ IF t \in rt /\ consumeAccepts(mt, t, r.producer, r.caps)
           THEN /\ msTransports' = mt
                /\ transports' = rt
                /\ plainTransports' = pt
                /\ pending' = (pending \ {r}) \cup
                              {[r EXCEPT !.op = "bridge-consume", !.transport = t]}
                /\ reply' = NoReply
           ELSE LET c == bridgeCatch(mt, rt, pt)
                IN /\ msTransports' = c.mt
                   /\ transports' = c.rt
                   /\ plainTransports' = c.pt
                   /\ pending' = pending \ {r}
                   /\ reply' = Err(r.socket, "ndi-bridge-consume-stream", "consume failed")
  /\ emits' = <<>>
  /\ UNCHANGED <<sockets, deviceVars, msProducers, msConsumers, producers, consumers,
                 streamMetadata, now, started>>
  /\ cancelled' = {}

BridgeConsumeDone(r) ==
  /\ UNCHANGED storeVars
  /\ r \in pending /\ r.op = "bridge-consume"
  /\ pending' = pending \ {r}
  /\ IF msTransports[r.transport].closed
     THEN /\ reply' = Err(r.socket, "ndi-bridge-consume-stream", "consume failed")
          /\ UNCHANGED <<msConsumers, consumers>>
     ELSE LET c == Len(msConsumers) + 1
          IN /\ msConsumers' = Append(msConsumers,
                    [transport |-> r.transport, producer |-> r.producer,
                     closed |-> msProducers[r.producer].closed])
             /\ consumers' = consumers \cup {c}
             /\ reply' = OkData(r.socket, "ndi-bridge-consume-stream",
                                <<r.transport, msTransports[r.transport].port, c>>)
  /\ emits' = <<>>
  /\ UNCHANGED <<sockets, deviceVars, msTransports, msProducers, transports, producers,
                 streamMetadata, plainTransports, now, started>>
  /\ cancelled' = {}

Kinds == {"audio", "video"}

\* ---- specifications ---------------------------------------------------------
\* the whole server
Next ==
  \/ \E s \in Sockets : Connect(s)
  \/ \E s \in Sockets : RegisterDeviceMissingId(s)
  \/ \E s \in Sockets, d \in DeviceIds, n \in DeviceNames \cup {NoName} : RegisterDevice(s, d, n)
  \/ \E s \in Sockets : Disconnect(s)
  \/ \E d \in DeviceIds : RemovalTimerFires(d)
  \/ \E s \in Sockets : CreateTransport(s)
  \/ \E s \in Sockets, t \in TransportIds : ConnectTransport(s, t)
  \/ \E s \in Sockets, t \in TransportIds, k \in Kinds, e \in Encodings :
       ProduceBeginEncoded(s, t, k, e)
  \/ \E r \in pending : ProduceEnd(r)
  \/ \E t \in TransportIds : SfuTransportClose(t)
  \/ \E s \in Sockets : StopStream(s)
  \/ \E s \in Sockets, sid \in StreamIds, n \in StreamNames : UpdateStreamName(s, sid, n)
  \/ \E s \in Sockets, sid \in StreamIds : DisconnectStream(s, sid)
  \/ \E sid \in StreamIds : HttpDeleteStream(sid)
  \/ \E s \in Sockets, p \in 1..MaxProducers, c \in BOOLEAN : BridgeConsumeBegin(s, p, c)
  \/ \E r \in pending : BridgeTransportReady(r)
  \/ \E r \in pending : BridgeConsumeDone(r)
  \/ \E x \in StorePayloads : OnStreamStarted(x)
  \/ \E id \in StoreStreamIds : OnStreamEnded(id)
  \/ \E d \in StoreDeviceIds : OnDeviceConnected(d)

Spec == Init /\ [][Next]_vars

\* the device registry under the requests and events that read or write it
NextDevices ==
  \/ \E s \in Sockets : Connect(s)
  \/ \E s \in Sockets, d \in DeviceIds : RegisterDevice(s, d, NoName)
  \/ \E s \in Sockets : Disconnect(s)
  \/ \E d \in DeviceIds : RemovalTimerFires(d)
  \/ \E s \in Sockets : CreateTransport(s)
  \/ \E s \in Sockets, t \in TransportIds : ProduceBegin(s, t, "video")
  \/ \E r \in pending : ProduceEnd(r)
  \/ \E t \in TransportIds : SfuTransportClose(t)
  \/ \E s \in Sockets : StopStream(s)

SpecDevices == Init /\ [][NextDevices]_vars

\* the router's registries under ingest, stream removal and transport close
NextStreams ==
  \/ \E s \in Sockets : Connect(s)
  \/ \E s \in Sockets : Disconnect(s)
  \/ \E s \in Sockets : CreateTransport(s)
  \/ \E s \in Sockets, t \in TransportIds : ConnectTransport(s, t)
  \/ \E s \in Sockets, t \in TransportIds, k \in Kinds : ProduceBegin(s, t, k)
  \/ \E r \in pending : ProduceEnd(r)
  \/ \E t \in TransportIds : SfuTransportClose(t)
  \/ \E s \in Sockets, sid \in StreamIds : DisconnectStream(s, sid)
  \/ \E sid \in StreamIds : HttpDeleteStream(sid)

SpecStreams == Init /\ [][NextStreams]_vars

\* the egress path: ingest, bridge requests and producer close
NextEgress ==
  \/ \E s \in Sockets : Connect(s)
  \/ \E s \in Sockets : CreateTransport(s)
  \/ \E s \in Sockets, t \in TransportIds : ProduceBegin(s, t, "video")
  \/ \E r \in pending : ProduceEnd(r)
  \/ \E t \in TransportIds : SfuTransportClose(t)
  \/ \E s \in Sockets, sid \in StreamIds : DisconnectStream(s, sid)
  \/ \E s \in Sockets, p \in 1..MaxProducers, c \in BOOLEAN : BridgeConsumeBegin(s, p, c)
  \/ \E r \in pending : BridgeTransportReady(r)
  \/ \E r \in pending : BridgeConsumeDone(r)

SpecEgress == Init /\ [][NextEgress]_vars

\* the device registry with the scheduling the runtime guarantees: a pending
\* setTimeout fires, and the SFU answers a pending produce
FairDevices ==
  /\ Init
  /\ [][NextDevices]_vars
  /\ WF_vars(\E d \in DeviceIds : RemovalTimerFires(d))
  /\ WF_vars(\E r \in pending : ProduceEnd(r))

\* registration: every form of register-device against disconnects, timers and
\* a device's own stream
NextRegistry ==
  \/ \E s \in Sockets : Connect(s)
  \/ \E s \in Sockets : RegisterDeviceMissingId(s)
  \/ \E s \in Sockets, d \in DeviceIds, n \in DeviceNames \cup {NoName} : RegisterDevice(s, d, n)
  \/ \E s \in Sockets : Disconnect(s)
  \/ \E d \in DeviceIds : RemovalTimerFires(d)
  \/ \E s \in Sockets : CreateTransport(s)
  \/ \E s \in Sockets, t \in TransportIds : ProduceBegin(s, t, "video")
  \/ \E r \in pending : ProduceEnd(r)
  \/ \E s \in Sockets : StopStream(s)

SpecRegistry == Init /\ [][NextRegistry]_vars

\* stream names: ingest, operator renames and the ways a stream ends
NextNames ==
  \/ \E s \in Sockets : Connect(s)
  \/ \E s \in Sockets : CreateTransport(s)
  \/ \E s \in Sockets, t \in TransportIds : ProduceBegin(s, t, "video")
  \/ \E r \in pending : ProduceEnd(r)
  \/ \E t \in TransportIds : SfuTransportClose(t)
  \/ \E s \in Sockets, sid \in StreamIds, n \in StreamNames : UpdateStreamName(s, sid, n)
  \/ \E s \in Sockets, sid \in StreamIds : DisconnectStream(s, sid)

SpecNames == Init /\ [][NextNames]_vars

\* ingest by registered devices: audio and video produce against registration
\* and session close
NextIngest ==
  \/ \E s \in Sockets : Connect(s)
  \/ \E s \in Sockets, d \in DeviceIds : RegisterDevice(s, d, NoName)
  \/ \E s \in Sockets : Disconnect(s)
  \/ \E s \in Sockets : CreateTransport(s)
  \/ \E s \in Sockets, t \in TransportIds, k \in Kinds : ProduceBegin(s, t, k)
  \/ \E r \in pending : ProduceEnd(r)

SpecIngest == Init /\ [][NextIngest]_vars

\* stream synthesis: video produce with every first encoding, and the
\* operator's disconnect-stream that makes the transport streamless again
NextEncoding ==
  \/ \E s \in Sockets : Connect(s)
  \/ \E s \in Sockets : CreateTransport(s)
  \/ \E s \in Sockets, t \in TransportIds, e \in Encodings :
       ProduceBeginEncoded(s, t, "video", e)
  \/ \E r \in pending : ProduceEnd(r)
  \/ \E s \in Sockets, sid \in StreamIds : DisconnectStream(s, sid)

SpecEncoding == Init /\ [][NextEncoding]_vars

\* the dashboard store under the events a server can send it
NextDashboard ==
  \/ \E x \in StorePayloads : OnStreamStarted(x)
  \/ \E id \in StoreStreamIds : OnStreamEnded(id)
  \/ \E d \in StoreDeviceIds : OnDeviceConnected(d)

SpecDashboard == Init /\ [][NextDashboard]_vars

\* ---- properties -------------------------------------------------------------
Present(d) == d \in DOMAIN devices
HasEvent(es, e) == \E i \in 1..Len(es) : es[i] = e
Closes(s) == sockets[s] = "open" /\ sockets'[s] = "closed"
LiveVideoProducersOf(s) ==
  {p \in DOMAIN msProducers :
     msProducers[p].socket = s /\ msProducers[p].kind = "video" /\ ~msProducers[p].closed}

\* C1: when a socket disconnects, every live video producer its session created
\* is closed, its stream leaves the active list and stream-ended is emitted for
\* it before the device-disconnected of the session's device.
C1_DisconnectEndsStreams ==
  [][\A s \in Sockets : Closes(s) =>
       \A p \in LiveVideoProducersOf(s) :
         /\ msProducers'[p].closed
         /\ StreamsOfProducer(streamMetadata', p) = {}
         /\ \A x \in StreamsOfProducer(streamMetadata, p) :
              \E i \in 1..Len(emits') :
                /\ emits'[i] = Ev("stream-ended", NoDevice, x.id, FALSE)
                /\ \A j \in 1..Len(emits') :
                     emits'[j].type = "device-disconnected" => i < j]_vars

\* C2: a device that is neither connected nor streaming is eventually deleted
\* from the registry unless it is registered again or streams again.
C2_IdleDeviceEventuallyRemoved ==
  \A d \in DeviceIds :
    (Present(d) /\ ~devices[d].isConnected /\ ~devices[d].isStreaming)
      ~> (~Present(d) \/ devices[d].isConnected \/ devices[d].isStreaming)

\* C3: a register-device(d) processed while d's removal timer is pending cancels
\* the timer and leaves d connected and bound to the registering session;
\* device-removed{d} comes only from a timer that is still pending on a
\* disconnected device, and a timer is only armed by a socket disconnect.
C3_RegisterCancelsRemoval ==
  [][\A d \in DeviceIds :
       /\ (removalTimer[d] /\ HasEvent(emits', Ev("device-connected", d, NoStream, FALSE))
             /\ reply'.op = "register-device")
            => /\ ~removalTimer'[d]
               /\ Present(d)'
               /\ devices'[d].isConnected
               /\ devices'[d].socketId = reply'.socket
               /\ ~HasEvent(emits', Ev("device-removed", d, NoStream, FALSE))
       /\ HasEvent(emits', Ev("device-removed", d, NoStream, FALSE))
            => (reply'.op = "none" /\ removalTimer[d] /\ Present(d)
                /\ ~devices[d].isConnected)
       /\ (~removalTimer[d] /\ removalTimer'[d]) => \E s \in Sockets : Closes(s)]_vars

\* C3 witness: a register-device has just cancelled a pending removal timer and
\* the device is connected on the registering, open socket while the socket it
\* was bound to before is closed.
C3_Witness ==
  \E d \in DeviceIds :
    /\ d \in cancelled
    /\ reply.op = "register-device"
    /\ Present(d) /\ devices[d].isConnected /\ ~removalTimer[d]
    /\ sockets[devices[d].socketId] = "open"
    /\ \E s \in Sockets : sockets[s] = "closed"

ActiveStreamIds == {x.id : x \in streamMetadata}
LiveVideoProducers ==
  {p \in DOMAIN msProducers : msProducers[p].kind = "video" /\ ~msProducers[p].closed}
LiveEgress ==
  {b \in plainTransports : b.transport \in transports /\ ~msTransports[b.transport].closed}
EgressConsumers(p) ==
  {c \in consumers : /\ msConsumers[c].producer = p
                     /\ msTransports[msConsumers[c].transport].kind = "plain"
                     /\ ~msConsumers[c].closed}

\* C4: the stream ids get-active-streams returns are exactly those with a
\* stream-started emitted and no stream-ended emitted since.
C4_ActiveStreamsMatchEvents == ActiveStreamIds = started

\* C5: every live video producer has exactly one stream record naming it.
C5_OneStreamPerVideoProducer ==
  \A p \in LiveVideoProducers : Cardinality(StreamsOfProducer(streamMetadata, p)) = 1

\* C6: no live egress transport in the registry refers to a producer that is
\* not live.
C6_EgressProducerLive ==
  \A b \in LiveEgress : ~msProducers[b.producerId].closed

\* C7: a live producer never has two egress consumers: a repeated
\* ndi-bridge-consume-stream creates no second consumer and answers with the
\* consumer of the first.
C7_BridgeConsumeIdempotent ==
  \A p \in DOMAIN msProducers :
    ~msProducers[p].closed => Cardinality(EgressConsumers(p)) <= 1

\* C8: a step in which ndi-bridge-consume-stream fails leaves the transport
\* registry and the egress ports in use as they were before the request.
C8_FailedBridgeReleasesTransport ==
  [][(reply'.op = "ndi-bridge-consume-stream" /\ ~reply'.ok)
       => (transports' = transports
           /\ PortsInUse(msTransports') = PortsInUse(msTransports))]_vars

\* C9: every produce request the server accepts, and every producer it creates,
\* is on a transport created by the requesting session.
C9_OnlyOwnerProduces ==
  /\ \A r \in pending :
       r.op = "produce" => msTransports[r.transport].socket = r.socket
  /\ \A p \in DOMAIN msProducers :
       msTransports[msProducers[p].transport].socket = msProducers[p].socket

ProducerTag(p) == TransportTag(msProducers[p].transport)

\* C11: in every step, a device-streaming-changed(true, streamId) is preceded
\* by the stream-started of the stream it names: one emitted earlier in the
\* step, or one emitted in an earlier step with no stream-ended since.
C11_StreamStartedBeforeStreamingChanged ==
  [][\A j \in 1..Len(emits') :
       (emits'[j].type = "device-streaming-changed" /\ emits'[j].flag)
       => \/ emits'[j].sid \in started
          \/ \E i \in 1..(j - 1) :
               emits'[i].type = "stream-started" /\ emits'[i].sid = emits'[j].sid]_vars

\* where a device stands in ( connected (...)* disconnected (removed)? )*: it
\* is connected from its device-connected to its device-disconnected
Phase(d) ==
  IF ~Present(d) THEN "absent"
  ELSE IF devices[d].isConnected THEN "connected" ELSE "disconnected"

\* C12: the events emitted for a device follow
\* ( connected ( streaming-changed | stream-* )* disconnected (removed)? )*:
\* device-connected only for a device that is not connected, device-disconnected
\* and every streaming or stream event only for a connected one, device-removed
\* only for a disconnected one.
C12_DeviceEventsFollowRegex ==
  [][\A i \in 1..Len(emits') :
       LET e == emits'[i]
       IN e.dev # NoDevice =>
            IF e.type = "device-connected" THEN Phase(e.dev) # "connected"
            ELSE IF e.type = "device-removed" THEN Phase(e.dev) = "disconnected"
            ELSE Phase(e.dev) = "connected"]_vars

\* C13: a device is streaming exactly when a live video producer is on a
\* transport its session created, or is tagged (itself or its transport) with
\* the device's id.
C13_StreamingIffLiveVideoProducer ==
  \A d \in DOMAIN devices :
    devices[d].isStreaming <=>
      \E p \in LiveVideoProducers :
        \/ msTransports[msProducers[p].transport].socket = devices[d].socketId
        \/ ProducerTag(p) = DevTag(d)
        \/ msTransports[msProducers[p].transport].clientId = DevTag(d)

C15_MissingDeviceIdRejected ==
  [][reply'.op = "register-device" =>
       /\ emits' = <<>> => reply' = Err(reply'.socket, "register-device", "deviceId is required")
       /\ ~reply'.ok =>
            /\ reply'.error = "deviceId is required"
            /\ emits' = <<>>
            /\ cancelled' = {}
            /\ UNCHANGED <<deviceVars, routerVars, sockets, started>>]_vars

\* C15 witness: a register-device was just refused for its missing deviceId
\* while a device is in the registry with its removal timer pending.
C15_Witness ==
  /\ reply.op = "register-device" /\ reply.error = "deviceId is required"
  /\ \E d \in DOMAIN devices : removalTimer[d] /\ ~devices[d].isConnected

\* C16: in every state, register-device(d) applied twice by one session gives
\* the registry that applying it once gives.
C16_RegisterTwiceSameAsOnce ==
  \A s \in Sockets, d \in DeviceIds, n \in DeviceNames \cup {NoName} :
    LET G1 == registerDevice(DeviceRegistry, s, d, n)
    IN registerDevice(G1, s, d, n) = G1

\* C16 witness: a session has just registered again a device it was already
\* streaming as, so the registry holds a stream id the repeated call must keep.
C16_Witness ==
  \E d \in DOMAIN devices :
    /\ reply = Ok(devices[d].socketId, "register-device")
    /\ emits = <<Ev("device-connected", d, NoStream, FALSE)>>
    /\ devices[d].isStreaming /\ devices[d].streamId # NoStream
    /\ \E t \in DOMAIN msTransports :
         msTransports[t].clientId = DevTag(d) /\ msTransports[t].socket = devices[d].socketId

\* C17: in every state, register-device(d) from a session other than the one
\* d is bound to binds d to the new session, leaves no removal timer pending,
\* keeps the name when the request has none, and changes neither streaming,
\* streamId nor any other device.
C17_RebindTransfers ==
  \A s \in Sockets, d \in DOMAIN devices, n \in DeviceNames \cup {NoName} :
    devices[d].socketId # s =>
      LET G == registerDevice(DeviceRegistry, s, d, n)
      IN /\ DOMAIN G.devs = DOMAIN devices
         /\ G.devs[d].socketId = s
         /\ G.devs[d].isConnected
         /\ ~G.timers[d]
         /\ G.devs[d].deviceName = (IF n = NoName THEN devices[d].deviceName ELSE n)
         /\ G.devs[d].isStreaming = devices[d].isStreaming
         /\ G.devs[d].streamId = devices[d].streamId
         /\ \A x \in DOMAIN devices \ {d} : G.devs[x] = devices[x] /\ G.timers[x] = removalTimer[x]

\* C17 witness: a named, streaming device whose session had gone and whose
\* removal timer was pending has just been registered by another session.
C17_Witness ==
  \E d \in DOMAIN devices, t \in DOMAIN msTransports :
    /\ msTransports[t].clientId = DevTag(d)
    /\ msTransports[t].socket # devices[d].socketId
    /\ reply = Ok(devices[d].socketId, "register-device")
    /\ d \in cancelled /\ ~removalTimer[d]
    /\ devices[d].isStreaming /\ devices[d].deviceName # NoName

\* C18: no two devices in the registry are bound to the same session id.
C18_OneDevicePerSession ==
  \A d1, d2 \in DOMAIN devices : d1 # d2 => devices[d1].socketId # devices[d2].socketId

\* C19: update-stream-name(s, n) on a listed stream succeeds, emits
\* stream-name-updated{s, n} and lists s with name n, every other stream as it
\* was; on an unknown id it answers 'Stream not found', emits nothing and
\* changes nothing; every update-stream-name step is one of these two; and no
\* other step changes the name of a stream that stays listed.
C19_RenameRoundTrip ==
  [][/\ \A s \in Sockets, sid \in StreamIds, n \in StreamNames :
          LET H == onUpdateStreamName(streamMetadata, s, sid, n)
          IN IF sid \in ActiveStreamIds
             THEN /\ H.reply = Ok(s, "update-stream-name")
                  /\ H.em = <<EvNamed("stream-name-updated", sid, n)>>
                  /\ {x.id : x \in H.sm} = ActiveStreamIds
                  /\ \A x \in H.sm : x.id = sid => x.customName = n
                  /\ \A x \in H.sm : x.id # sid => x \in streamMetadata
             ELSE /\ H.reply = Err(s, "update-stream-name", "Stream not found")
                  /\ H.em = <<>>
                  /\ H.sm = streamMetadata
     /\ reply'.op = "update-stream-name" =>
          /\ \E sid \in StreamIds, n \in StreamNames :
               LET H == onUpdateStreamName(streamMetadata, reply'.socket, sid, n)
               IN streamMetadata' = H.sm /\ emits' = H.em /\ reply' = H.reply
          /\ UNCHANGED <<sockets, deviceVars, msTransports, msProducers, msConsumers,
                         transports, producers, consumers, plainTransports, pending,
                         now, started>>
     /\ reply'.op # "update-stream-name" =>
          \A x \in streamMetadata, y \in streamMetadata' :
            x.id = y.id => y.customName = x.customName]_vars

\* C19 witness: a stream that an operator renamed has since been given a new
\* producer and is still listed under the operator's name.
C19_Witness ==
  \E x \in streamMetadata :
    /\ x.customName \in StreamNames
    /\ reply.op = "produce" /\ reply.ok
    /\ x.producerId = Len(msProducers)
    /\ Len(msProducers) > 1

\* C20: when the SFU closes a transport, every stream of a live video producer
\* on it leaves the active list with stream-ended{streamId} emitted, and every
\* device of the producer's session or tag is set to streaming=false with
\* device-streaming-changed(false) emitted.
C20_TransportCloseEndsStream ==
  [][\A t \in DOMAIN msTransports :
       (~msTransports[t].closed /\ msTransports'[t].closed /\ reply' = NoReply)
       => \A p \in LiveProducersOn(t) :
            msProducers[p].kind = "video" =>
              /\ \A x \in StreamsOfProducer(streamMetadata, p) :
                   /\ x.id \notin ActiveStreamIds'
                   /\ HasEvent(emits', Ev("stream-ended", NoDevice, x.id, FALSE))
              /\ \A d \in DOMAIN devices :
                   (devices[d].socketId = msProducers[p].socket
                      \/ msTransports[t].clientId = DevTag(d))
                   => /\ ~devices'[d].isStreaming
                      /\ HasEvent(emits', Ev("device-streaming-changed", d, NoStream, FALSE))]_vars

\* the produce requests answered by a step
Answered == {r \in pending \ pending' : r.op = "produce"}

\* C21: an ndi-bridge-consume-stream naming a closed producer is never accepted
\* for an egress transport: the producer registry its validation reads holds
\* live producers only.
C21_BridgeRejectsClosedProducer ==
  [][/\ \A r \in pending' \ pending :
          r.op = "bridge-transport" => ~msProducers[r.producer].closed
     /\ \A p \in producers' : ~msProducers'[p].closed]_vars

\* C22: every produce request that gets past the transport check, and every
\* producer, is on a client (WebRTC) transport.
C22_ProduceOnlyOnClientTransport ==
  /\ \A r \in pending : r.op = "produce" => msTransports[r.transport].kind = "webrtc"
  /\ \A p \in DOMAIN msProducers : msTransports[msProducers[p].transport].kind = "webrtc"

StreamEndedCount(es) ==
  Cardinality({i \in 1..Len(es) : es[i].type = "stream-ended"})

\* C23: a successful disconnect-stream names a listed stream s, closes and
\* unregisters its producer, removes s from the list, leaves every other
\* stream listed and emits stream-ended{s} once and no other stream-ended; a
\* failed one answers 'Stream not found', emits nothing and changes nothing;
\* and a stream that is not listed is never listed again, so a repeated
\* disconnect-stream(s) finds nothing.
C23_DisconnectStreamOnce ==
  [][/\ reply'.op = "disconnect-stream" =>
          IF reply'.ok
          THEN \E x \in streamMetadata :
                 /\ HasEvent(emits', Ev("stream-ended", NoDevice, x.id, FALSE))
                 /\ StreamEndedCount(emits') = 1
                 /\ msProducers'[x.producerId].closed
                 /\ x.producerId \notin producers'
                 /\ streamMetadata' = streamMetadata \ {x}
          ELSE /\ reply'.error = "Stream not found"
               /\ emits' = <<>>
               /\ UNCHANGED <<sockets, deviceVars, routerVars, pending, started>>
     /\ \A x \in streamMetadata' \ streamMetadata :
          x.id \notin ActiveStreamIds => x.id[2] = now]_vars

\* C23 witness: a disconnect-stream has just ended a stream: its producer is
\* closed and unregistered on a transport that is still open, and the list has
\* lost the stream.
C23_Witness ==
  /\ reply.op = "disconnect-stream" /\ reply.ok
  /\ Len(emits) = 1 /\ emits[1].type = "stream-ended"
  /\ emits[1].sid \notin ActiveStreamIds
  /\ \E p \in DOMAIN msProducers :
       /\ msProducers[p].closed /\ p \notin producers
       /\ ~msTransports[msProducers[p].transport].closed

\* C24: a successful video produce by a session on a transport it created marks
\* the session's device streaming with the id of the producer's stream and
\* emits device-streaming-changed{d,true,streamId}.
C24_ProduceMarksSessionDevice ==
  [][\A r \in Answered :
       (r.kind = "video" /\ reply' = Ok(r.socket, "produce")
          /\ msTransports[r.transport].socket = r.socket
          /\ deviceBySocket(r.socket) # NoDevice)
       => LET d == deviceBySocket(r.socket)
          IN \E x \in StreamsOfProducer(streamMetadata', Len(msProducers')) :
               /\ devices'[d].isStreaming
               /\ devices'[d].streamId = x.id
               /\ HasEvent(emits', Ev("device-streaming-changed", d, x.id, TRUE))]_vars

\* C25: a produce answered by the SFU after its session closed changes no
\* registry and emits nothing.
C25_ClosedSessionProduceDropped ==
  [][\A r \in Answered :
       sockets[r.socket] = "closed"
       => /\ emits' = <<>>
          /\ UNCHANGED <<devices, streamMetadata, producers, started>>]_vars

\* C26: a video produce answered right after a stop-stream of the same session
\* (the stop-stream arrived while the produce was suspended on the SFU) leaves
\* the session's device with streaming=false and streamId=null and emits no
\* device-streaming-changed(true) for it.
C26_StopStreamAfterProduceWins ==
  [][\A r \in Answered :
       (r.kind = "video" /\ reply = Ok(r.socket, "stop-stream"))
       => LET d == deviceBySocket(r.socket)
          IN /\ ~devices'[d].isStreaming
             /\ devices'[d].streamId = NoStream
             /\ \A i \in 1..Len(emits') :
                  ~(emits'[i].type = "device-streaming-changed" /\ emits'[i].dev = d
                      /\ emits'[i].flag)]_vars

\* C27: no client transport in the registry was created by a session that has
\* closed.
C27_ClosedSessionHasNoTransport ==
  \A t \in transports :
    msTransports[t].kind = "webrtc" => sockets[msTransports[t].socket] # "closed"

\* C28: in a step that emits device-removed{d}, no stream left in the active
\* list is on a transport tagged with d.
C28_RemovedDeviceHasNoStream ==
  [][\A d \in DeviceIds :
       HasEvent(emits', Ev("device-removed", d, NoStream, FALSE))
       => \A x \in streamMetadata' : msTransports'[x.clientId].clientId # DevTag(d)]_vars

\* C29: no two streams share a client transport; and a video produce answered
\* on a transport that has a stream keeps the stream's id and custom name,
\* points it to the new producer and adds no stream.
C29_StreamUpdatedInPlace ==
  [][/\ \A x, y \in streamMetadata' : x.clientId = y.clientId => x = y
     /\ \A r \in Answered :
          (r.kind = "video" /\ reply' = Ok(r.socket, "produce"))
          => \A x \in StreamsOfClient(streamMetadata, r.transport) :
               streamMetadata' =
                 (streamMetadata \ {x}) \cup {[x EXCEPT !.producerId = Len(msProducers')]}]_vars

\* C29 witness: of two video produce requests in flight together on one
\* transport, the first has been answered and has its stream, and the second
\* is still suspended.
C29_Witness ==
  \E r \in pending :
    /\ r.op = "produce" /\ r.kind = "video"
    /\ reply.op = "produce" /\ reply.ok
    /\ msProducers[Len(msProducers)].transport = r.transport
    /\ StreamsOfClient(streamMetadata, r.transport) # {}

\* C30: an audio produce, answered with success or not, leaves the stream
\* records, the devices and the started streams as they were and emits nothing.
C30_AudioProduceMakesNoStream ==
  [][\A r \in Answered :
       r.kind = "audio"
       => /\ emits' = <<>>
          /\ UNCHANGED <<streamMetadata, devices, devOrder, removalTimer, started>>]_vars

\* C30 witness: an audio producer has just been created on the transport of a
\* streaming device whose video stream is listed.
C30_Witness ==
  /\ reply.op = "produce" /\ reply.ok
  /\ Len(msProducers) > 1
  /\ msProducers[Len(msProducers)].kind = "audio"
  /\ \E d \in DOMAIN devices :
       /\ devices[d].isStreaming
       /\ msTransports[msProducers[Len(msProducers)].transport].clientId = DevTag(d)
       /\ \E x \in streamMetadata : x.id = devices[d].streamId /\ x.producerId < Len(msProducers)

\* C34: when a session closes, a device bound to another session keeps its
\* record and its removal timer as they were, and no device-disconnected is
\* emitted for it.
C34_CloseOfOldSessionSparesDevice ==
  [][\A s \in Sockets, d \in DOMAIN devices :
       (Closes(s) /\ devices[d].socketId # s)
       => /\ d \in DOMAIN devices'
          /\ devices'[d] = devices[d]
          /\ removalTimer'[d] = removalTimer[d]
          /\ ~HasEvent(emits', Ev("device-disconnected", d, NoStream, FALSE))]_vars

\* C34 witness: the session that created the transport tagged with d has just
\* closed, and d, bound to another, open session, is connected with no removal
\* timer pending.
C34_Witness ==
  \E d \in DOMAIN devices, t \in DOMAIN msTransports :
    /\ msTransports[t].clientId = DevTag(d)
    /\ sockets[msTransports[t].socket] = "closed"
    /\ devices[d].socketId # msTransports[t].socket
    /\ sockets[devices[d].socketId] = "open"
    /\ devices[d].isConnected /\ ~removalTimer[d]
    /\ reply = NoReply /\ emits = <<>> /\ cancelled = {}

\* C35: every connected device is bound to an open session.
C35_ConnectedDeviceHasOpenSession ==
  \A d \in DOMAIN devices :
    devices[d].isConnected => sockets[devices[d].socketId] = "open"

\* C36: the streamId of a device is null or the id of a listed stream.
C36_DeviceStreamIdListed ==
  \A d \in DOMAIN devices :
    devices[d].streamId = NoStream \/ devices[d].streamId \in ActiveStreamIds

\* C37: in a step that removes a stream from the list, the transport the
\* stream's producer was created on leaves the transport registry.
C37_StreamRemovalDropsTransport ==
  [][\A x \in streamMetadata :
       x.id \notin ActiveStreamIds' => x.clientId \notin transports']_vars

\* C38: a stop-stream from a session that has no device answers 'Device not
\* found', emits nothing and changes no device, timer or router state.
C38_StopStreamWithoutDevice ==
  [][(reply'.op = "stop-stream" /\ deviceBySocket(reply'.socket) = NoDevice)
       => /\ reply' = Err(reply'.socket, "stop-stream", "Device not found")
          /\ emits' = <<>>
          /\ UNCHANGED <<sockets, deviceVars, routerVars, pending, started>>]_vars

\* C38 witness: a stop-stream was just refused for a session without a device
\* while another session's device is streaming.
C38_Witness ==
  /\ reply.op = "stop-stream" /\ reply.error = "Device not found"
  /\ deviceBySocket(reply.socket) = NoDevice
  /\ \E d \in DOMAIN devices : devices[d].isStreaming /\ devices[d].isConnected

\* the record of the first video produce answered on a transport has the
\* resolution of the declared scale factor k >= 1 (the default without one)
\* and the bitrate b
FirstStreamIs(r, b) ==
  (r.kind = "video" /\ reply' = Ok(r.socket, "produce")
     /\ StreamsOfClient(streamMetadata, r.transport) = {}
     /\ (r.enc.scale = Undeclared \/ r.enc.scale >= 1))
  => /\ StreamsOfClient(streamMetadata', r.transport) # {}
     /\ \A x \in StreamsOfClient(streamMetadata', r.transport) :
          /\ x.producerId = Len(msProducers')
          /\ x.width = (IF r.enc.scale >= 1 THEN 1280 \div r.enc.scale ELSE 1280)
          /\ x.height = (IF r.enc.scale >= 1 THEN 720 \div r.enc.scale ELSE 720)
          /\ x.bitrate = b

\* C31 as claimed: width = floor(1280/s), height = floor(720/s) for a declared
\* s >= 1 (1280 and 720 otherwise) and bitrate = maxBitrate whenever the first
\* encoding declares one (1,000,000 otherwise).
C31_FirstStreamFromEncoding ==
  [][\A r \in Answered :
       FirstStreamIs(r, IF r.enc.maxBitrate # Undeclared THEN r.enc.maxBitrate
                        ELSE 1000000)]_vars

\* C31 amended: the same, with bitrate = maxBitrate when the first encoding
\* declares a maxBitrate other than 0, and 1,000,000 when it declares none or 0.
C31_FirstStreamFromNonZeroEncoding ==
  [][\A r \in Answered :
       FirstStreamIs(r, IF r.enc.maxBitrate \notin {Undeclared, 0} THEN r.enc.maxBitrate
                        ELSE 1000000)]_vars

\* C31 witness: the first video produce on a transport declared a scale factor
\* of 3 and a bitrate, and its stream is listed as 426x240 at that bitrate.
C31_Witness ==
  /\ reply.op = "produce" /\ reply.ok
  /\ Len(msProducers) = 1
  /\ \E x \in streamMetadata :
       /\ x.producerId = 1
       /\ x.width = 426 /\ x.height = 240 /\ x.bitrate = 500000

\* C32: the store never lists two streams with one id; a stream-started puts
\* its stream at the end of the list, and when its id was listed already the
\* list has the same ids and the same length as before.
C32_StoreReplacesSameId ==
  [][/\ \A i, j \in DOMAIN storeStreams' :
          storeStreams'[i].id = storeStreams'[j].id => i = j
     /\ storeEvent'.type = "stream-started" =>
          /\ storeStreams' # <<>>
          /\ storeStreams'[Len(storeStreams')] = storeEvent'.stream
          /\ storeEvent'.listed =>
               /\ ListedIds(storeStreams') = ListedIds(storeStreams)
               /\ Len(storeStreams') = Len(storeStreams)]_vars

\* C32 witness: a stream-started for a listed id has just replaced the entry of
\* that id, among other streams, with a payload of a later connection time.
C32_Witness ==
  /\ storeEvent.type = "stream-started" /\ storeEvent.listed
  /\ Len(storeStreams) = StoreLimit
  /\ storeStreams[Len(storeStreams)] = storeEvent.stream
  /\ storeEvent.stream.connectedAt = MaxClock

\* C33: a stream-started adds its stream to the list and removes no other, so
\* that after stream-started for N distinct ids and no stream-ended all N are
\* listed.
C33_StoreListsEveryStartedStream ==
  [][storeEvent'.type = "stream-started" =>
       ListedIds(storeStreams') = ListedIds(storeStreams) \cup {storeEvent'.stream.id}]_vars
====
